---------------------------- MODULE Spec2Model ----------------------------
(***************************************************************************)
(* Model of index.js: the Hacker News "newest" validation script.          *)
(*                                                                         *)
(*   - time parsing      parseIsoTimestamp, parseRelativeAgeToTimestamp,   *)
(*                       toTimestamp                                       *)
(*   - validation        enrichArticlesWithTimestamps,                     *)
(*                       checkTimestampsParsable, checkSortedNewestToOldest*)
(*                       validateArticles                                  *)
(*   - collection        withRetry, scrapeArticlesOnPage,                  *)
(*                       navigateToNextPage, getFirstNArticles             *)
(*   - reporting / main  buildResultObject and the entry point             *)
(*                                                                         *)
(* Strings the repository's code inspects (the relative age text) are      *)
(* sequences of one-character strings, so that the regular expression,     *)
(* toLowerCase and startsWith are computed.  Instants are milliseconds     *)
(* relative to the epoch; the model keeps them within 32 bits.             *)
(*                                                                         *)
(* A definition named XMut... is a deliberately wrong variant of the       *)
(* definition X that follows it; it shows that a property depends on X.    *)
(***************************************************************************)
EXTENDS Integers, Sequences, FiniteSets, TLC

VARIABLES
    \* ---- toTimestamp applied to one article (SpecTime)
    tArticle,          \* the article handed to toTimestamp
    tNow,              \* nowMs handed to toTimestamp
    tResult,           \* value returned by toTimestamp
    tDone,             \* TRUE once toTimestamp has returned
    \* ---- validateArticles applied to one list (SpecValidate)
    vArticles,         \* the list handed to validateArticles
    vNow,              \* nowMs handed to validateArticles
    vResult,           \* value returned by validateArticles
    vScan,             \* indices i visited by the loop of checkSortedNewestToOldest
    vDone,             \* TRUE once validateArticles has returned
    \* ---- the entry point and getFirstNArticles (Spec)
    pc,                \* position of the main script
    gotoAttempt,       \* i of withRetry around page.goto
    collected,         \* getFirstNArticles: collected
    pagesVisited,      \* getFirstNArticles: pagesVisited
    navAttempt,        \* i of withRetry around navigateToNextPage
    stopCause,         \* which exit of the while loop was taken
    returned,          \* value getFirstNArticles returned (when hasReturned)
    hasReturned,       \* TRUE once getFirstNArticles has returned
    yielded,           \* concatenation of what the page reads yielded, in visit order
    pageYields,        \* number of rows each call of scrapeArticlesOnPage returned
    reads,             \* number of calls of scrapeArticlesOnPage
    advCalls,          \* number of calls of navigateToNextPage
    advOK,             \* number of calls of navigateToNextPage that succeeded
    sleeps,            \* number of sleep(delayMs) waits of the pagination retry
    articles,          \* main: articles
    validationResult,  \* main: validationResult
    validated,         \* TRUE once main has called validateArticles
    exitCode,          \* process.exitCode (0 when never set)
    report,            \* resultObj built in the finally block
    reportCount        \* number of times the finally block built a report

tvars == <<tArticle, tNow, tResult, tDone>>
vvars == <<vArticles, vNow, vResult, vScan, vDone>>
cvars == <<collected, pagesVisited, navAttempt, stopCause, returned, hasReturned,
           yielded, pageYields, reads, advCalls, advOK, sleeps>>
mvars == <<pc, gotoAttempt, articles, validationResult, validated, exitCode,
           report, reportCount>>
vars  == <<tvars, vvars, cvars, mvars>>

-----------------------------------------------------------------------------
(* JavaScript values *)

\* a number | NaN | null, as returned by the parsing functions
Num(x) == [tag |-> "number", v |-> x]
NaN    == [tag |-> "NaN", v |-> 0]
Null   == [tag |-> "null", v |-> 0]

\* Number.isNaN
IsNaN(x) == x.tag = "NaN"

\* the < of two numbers: false as soon as one side is NaN
LtMutLe(a, b) == a.tag = "number" /\ b.tag = "number" /\ a.v <= b.v
Lt(a, b) == a.tag = "number" /\ b.tag = "number" /\ a.v < b.v

\* the value null of ageISO (getAttribute found no link); every other ageISO is a string
NullISO == "<null>"

-----------------------------------------------------------------------------
(* Characters and strings *)

DigitSeq == <<"0", "1", "2", "3", "4", "5", "6", "7", "8", "9">>
Digit    == {DigitSeq[i] : i \in 1..10}
UpperSeq == <<"A","B","C","D","E","F","G","H","I","J","K","L","M",
              "N","O","P","Q","R","S","T","U","V","W","X","Y","Z">>
LowerSeq == <<"a","b","c","d","e","f","g","h","i","j","k","l","m",
              "n","o","p","q","r","s","t","u","v","w","x","y","z">>
\* \s and \w of the regular expression
WhiteSpace == {" ", "\t"}
WordChar   == Digit \cup {UpperSeq[i] : i \in 1..26} \cup {LowerSeq[i] : i \in 1..26} \cup {"_"}

\* String.prototype.toLowerCase
ToLowerCase(s) ==
    [i \in 1..Len(s) |->
        IF \E k \in 1..26 : UpperSeq[k] = s[i]
        THEN LowerSeq[CHOOSE k \in 1..26 : UpperSeq[k] = s[i]]
        ELSE s[i]]

\* String.prototype.startsWith
StartsWith(s, p) == Len(s) >= Len(p) /\ SubSeq(s, 1, Len(p)) = p

\* Number(match[1]) of a run of decimal digits
RECURSIVE DigitsToNumber(_)
DigitsToNumber(ds) ==
    IF ds = <<>> THEN 0
    ELSE 10 * DigitsToNumber(SubSeq(ds, 1, Len(ds) - 1))
         + ((CHOOSE i \in 1..10 : DigitSeq[i] = ds[Len(ds)]) - 1)

\* first index >= i of s that is not in class (Len(s)+1 when the run reaches the end)
RECURSIVE RunEnd(_, _, _)
RunEnd(s, i, class) ==
    IF i > Len(s) \/ s[i] \notin class THEN i ELSE RunEnd(s, i + 1, class)

\* /(\d+)\s+(\w+)/ tried at index i: greedy digits, then white space, then word
MatchAt(s, i) ==
    LET j == RunEnd(s, i, Digit)
        k == RunEnd(s, j, WhiteSpace)
        l == RunEnd(s, k, WordChar)
    IN  [ok |-> j > i /\ k > j /\ l > k,
         g1 |-> IF j > i THEN SubSeq(s, i, j - 1) ELSE <<>>,
         g2 |-> IF l > k THEN SubSeq(s, k, l - 1) ELSE <<>>]

\* ageText.match(/(\d+)\s+(\w+)/): the leftmost match, or ok = FALSE (null)
RegexMatch(s) ==
    IF \E i \in 1..Len(s) : MatchAt(s, i).ok
    THEN MatchAt(s, CHOOSE i \in 1..Len(s) :
                        /\ MatchAt(s, i).ok
                        /\ \A h \in 1..(i - 1) : ~MatchAt(s, h).ok)
    ELSE [ok |-> FALSE, g1 |-> <<>>, g2 |-> <<>>]

W_second == <<"s","e","c","o","n","d">>
W_minute == <<"m","i","n","u","t","e">>
W_hour   == <<"h","o","u","r">>
W_day    == <<"d","a","y">>

-----------------------------------------------------------------------------
(* Time parsing *)

\* Date.parse on the hints the model supplies: milliseconds, or NaN
DateParse(iso) ==
    CASE iso = "1970-01-01T00:00:00.000Z" -> Num(0)
      [] iso = "1970-01-01T00:01:30.000Z" -> Num(90000)
      [] iso = "1970-01-12T13:46:40.000Z" -> Num(1000000000)
      [] OTHER -> NaN

parseIsoTimestamp(iso) ==
    IF iso = NullISO \/ iso = "" THEN Null
    ELSE LET t == DateParse(iso) IN IF IsNaN(t) THEN Null ELSE t

\* the seconds multiplier of a lower-cased unit; 0 stands for the final else (return null)
UnitSecondsMutMinute(unit) ==
    IF StartsWith(unit, W_second) THEN 1
    ELSE IF StartsWith(unit, W_minute) THEN 6
    ELSE IF StartsWith(unit, W_hour) THEN 60 * 60
    ELSE IF StartsWith(unit, W_day) THEN 24 * 60 * 60
    ELSE 0
UnitSecondsMutUnknown(unit) ==
    IF StartsWith(unit, W_second) THEN 1
    ELSE IF StartsWith(unit, W_minute) THEN 60
    ELSE IF StartsWith(unit, W_hour) THEN 60 * 60
    ELSE IF StartsWith(unit, W_day) THEN 24 * 60 * 60
    ELSE 7 * 24 * 60 * 60
UnitSeconds(unit) ==
    IF StartsWith(unit, W_second) THEN 1
    ELSE IF StartsWith(unit, W_minute) THEN 60
    ELSE IF StartsWith(unit, W_hour) THEN 60 * 60
    ELSE IF StartsWith(unit, W_day) THEN 24 * 60 * 60
    ELSE 0

parseRelativeAgeToTimestamp(ageText, nowMs) ==
    LET match == RegexMatch(ageText) IN
    IF ~match.ok THEN Null
    ELSE LET value == DigitsToNumber(match.g1)
             unit  == ToLowerCase(match.g2)
         IN  IF UnitSeconds(unit) = 0 THEN Null
             ELSE Num(nowMs - (value * UnitSeconds(unit)) * 1000)

toTimestampMutRelativeFirst(article, nowMs) ==
    LET fromRelative == parseRelativeAgeToTimestamp(article.ageText, nowMs)
        fromIso == parseIsoTimestamp(article.ageISO)
    IN  IF fromRelative.tag # "null" THEN fromRelative
        ELSE IF fromIso.tag # "null" THEN fromIso
        ELSE NaN
toTimestamp(article, nowMs) ==
    LET fromIso == parseIsoTimestamp(article.ageISO) IN
    IF fromIso.tag # "null" THEN fromIso
    ELSE LET fromRelative == parseRelativeAgeToTimestamp(article.ageText, nowMs) IN
         IF fromRelative.tag # "null" THEN fromRelative
         ELSE NaN

-----------------------------------------------------------------------------
(* Validation *)

enrichArticlesWithTimestamps(arts, nowMs) ==
    [i \in 1..Len(arts) |->
        [index     |-> i,
         title     |-> arts[i].title,
         ageText   |-> arts[i].ageText,
         ageISO    |-> arts[i].ageISO,
         timestamp |-> toTimestamp(arts[i], nowMs)]]

\* the message pushed by checkTimestampsParsable, by the values it embeds
ParseProblem(d) ==
    [kind |-> "unparsable", index |-> d.index, title |-> d.title, ageText |-> d.ageText,
     iso |-> IF d.ageISO = NullISO THEN "none" ELSE d.ageISO,
     index2 |-> 0, title2 |-> "", ageText2 |-> <<>>]

\* the message pushed by checkSortedNewestToOldest, by the values it embeds
OrderProblem(prev, curr) ==
    [kind |-> "ordering", index |-> prev.index, title |-> prev.title, ageText |-> prev.ageText,
     iso |-> "",
     index2 |-> curr.index, title2 |-> curr.title, ageText2 |-> curr.ageText]

\* the for..of loop of checkTimestampsParsable, from element i on
RECURSIVE ParsableLoop(_, _, _)
ParsableLoop(details, i, problems) ==
    IF i > Len(details) THEN problems
    ELSE ParsableLoop(details, i + 1,
                      IF IsNaN(details[i].timestamp)
                      THEN Append(problems, ParseProblem(details[i]))
                      ELSE problems)

checkTimestampsParsable(details) ==
    LET problems == ParsableLoop(details, 1, <<>>)
    IN  [ok |-> Len(problems) = 0, problems |-> problems]

\* the for loop of checkSortedNewestToOldest; i is the (1-based) index of curr,
\* scan the indices the loop body has run for
RECURSIVE SortedLoopMutNoBreak(_, _, _, _)
SortedLoopMutNoBreak(details, i, problems, scan) ==
    IF i > Len(details) THEN [problems |-> problems, scan |-> scan]
    ELSE LET prev == details[i - 1]
             curr == details[i]
         IN  IF IsNaN(prev.timestamp) \/ IsNaN(curr.timestamp)
             THEN SortedLoopMutNoBreak(details, i + 1, problems, Append(scan, i))
             ELSE IF Lt(prev.timestamp, curr.timestamp)
             THEN SortedLoopMutNoBreak(details, i + 1,
                                       Append(problems, OrderProblem(prev, curr)),
                                       Append(scan, i))
             ELSE SortedLoopMutNoBreak(details, i + 1, problems, Append(scan, i))
RECURSIVE SortedLoopMutStopAtNaN(_, _, _, _)
SortedLoopMutStopAtNaN(details, i, problems, scan) ==
    IF i > Len(details) THEN [problems |-> problems, scan |-> scan]
    ELSE LET prev == details[i - 1]
             curr == details[i]
         IN  IF IsNaN(prev.timestamp) \/ IsNaN(curr.timestamp)
             THEN [problems |-> problems, scan |-> Append(scan, i)]
             ELSE IF Lt(prev.timestamp, curr.timestamp)
             THEN [problems |-> Append(problems, OrderProblem(prev, curr)),
                   scan     |-> Append(scan, i)]
             ELSE SortedLoopMutStopAtNaN(details, i + 1, problems, Append(scan, i))
RECURSIVE SortedLoop(_, _, _, _)
SortedLoop(details, i, problems, scan) ==
    IF i > Len(details) THEN [problems |-> problems, scan |-> scan]
    ELSE LET prev == details[i - 1]
             curr == details[i]
         IN  IF IsNaN(prev.timestamp) \/ IsNaN(curr.timestamp)
             THEN SortedLoop(details, i + 1, problems, Append(scan, i))
             ELSE IF Lt(prev.timestamp, curr.timestamp)
             THEN [problems |-> Append(problems, OrderProblem(prev, curr)),
                   scan     |-> Append(scan, i)]
             ELSE SortedLoop(details, i + 1, problems, Append(scan, i))

checkSortedNewestToOldest(details) ==
    LET r == SortedLoop(details, 2, <<>>, <<>>)
    IN  [ok |-> Len(r.problems) = 0, problems |-> r.problems, scan |-> r.scan]

validateArticlesMutShortCircuit(arts, nowMs) ==
    LET details    == enrichArticlesWithTimestamps(arts, nowMs)
        parseCheck == checkTimestampsParsable(details)
        sortCheck  == checkSortedNewestToOldest(details)
    IN  [isSorted |-> parseCheck.ok /\ sortCheck.ok,
         details  |-> details,
         problems |-> IF parseCheck.ok THEN sortCheck.problems ELSE parseCheck.problems]
validateArticles(arts, nowMs) ==
    LET details    == enrichArticlesWithTimestamps(arts, nowMs)
        parseCheck == checkTimestampsParsable(details)
        sortCheck  == checkSortedNewestToOldest(details)
    IN  [isSorted |-> parseCheck.ok /\ sortCheck.ok,
         details  |-> details,
         problems |-> parseCheck.problems \o sortCheck.problems]

-----------------------------------------------------------------------------
(* Configuration *)

\* EXPECTED_ARTICLE_COUNT (200 in the source) and MAX_PAGES_TO_VISIT (10 in the
\* source), scaled down together with the page size so that every exit of the
\* collection loop is reached: target, truncation, empty page, page cap.
EXPECTED_ARTICLE_COUNT == 3
MAX_PAGES_TO_VISIT     == 2
\* largest number of rows one page read yields
MaxPageLen == 2
\* longest list handed to validateArticles in SpecValidate
MaxLen == 4

\* attempts of withRetry around page.goto and around navigateToNextPage
GotoAttempts == 3
NavAttempts  == 2
\* sizes of the two samples of the report
FirstSampleSize == 5
LastSampleSize  == 3

Min(a, b) == IF a < b THEN a ELSE b
Max(a, b) == IF a > b THEN a ELSE b

\* Array.prototype.slice(0, n)
SliceMutAll(s, n) == s
Slice(s, n) == SubSeq(s, 1, Min(n, Len(s)))

\* Array.prototype.slice(-k)
SliceLast(s, k) == SubSeq(s, Max(1, Len(s) - k + 1), Len(s))

SeqsUpTo(S, n) == UNION {[1..k -> S] : k \in 0..n}

-----------------------------------------------------------------------------
(* Reporting *)

RECURSIVE MinOf(_)
MinOf(ts) == IF Len(ts) = 1 THEN ts[1] ELSE Min(ts[1], MinOf(Tail(ts)))
RECURSIVE MaxOf(_)
MaxOf(ts) == IF Len(ts) = 1 THEN ts[1] ELSE Max(ts[1], MaxOf(Tail(ts)))

\* the statistics object, or null (tag = "null"); instants are kept in
\* milliseconds, before toISOString / toFixed format them
StatisticsMutZero(details) ==
    [tag |-> "object", oldestMs |-> 0, newestMs |-> 0, spanMs |-> 0,
     unparsableCount |-> Len(SelectSeq(details, LAMBDA d : IsNaN(d.timestamp)))]
Statistics(details) ==
    LET parsable   == SelectSeq(details, LAMBDA d : ~IsNaN(d.timestamp))
        timestamps == [i \in 1..Len(parsable) |-> parsable[i].timestamp.v]
    IN  IF Len(timestamps) > 0
        THEN [tag |-> "object",
              oldestMs |-> MinOf(timestamps),
              newestMs |-> MaxOf(timestamps),
              spanMs   |-> MaxOf(timestamps) - MinOf(timestamps),
              unparsableCount |-> Len(SelectSeq(details, LAMBDA d : IsNaN(d.timestamp)))]
        ELSE [tag |-> "null", oldestMs |-> 0, newestMs |-> 0, spanMs |-> 0,
              unparsableCount |-> 0]

\* the meta object (the wall-clock fields are left out)
MetaMutExpected(arts) ==
    [expectedCount |-> EXPECTED_ARTICLE_COUNT, actualCount |-> EXPECTED_ARTICLE_COUNT]
Meta(arts) ==
    [expectedCount |-> EXPECTED_ARTICLE_COUNT, actualCount |-> Len(arts)]

buildResultObject(arts, vr) ==
    [meta |-> Meta(arts),
     validation |-> [passed       |-> vr.isSorted,
                     isSorted     |-> vr.isSorted,
                     problemCount |-> Len(vr.problems),
                     problems     |-> vr.problems],
     statistics |-> Statistics(vr.details),
     sampleArticles |->
        [first5 |-> LET f == Slice(arts, FirstSampleSize) IN
                    [i \in 1..Len(f) |->
                        [position |-> i, title |-> f[i].title, age |-> f[i].ageText]],
         last3  |-> LET l == SliceLast(arts, LastSampleSize) IN
                    [i \in 1..Len(l) |->
                        [position |-> Len(arts) - 2 + (i - 1),
                         title |-> l[i].title, age |-> l[i].ageText]]]]

-----------------------------------------------------------------------------
(* Inputs *)

T_ago     == <<" ","a","g","o">>
T_1minute == <<"1"," ","m","i","n","u","t","e"," ","a","g","o">>
T_3minutes == <<"3"," ","m","i","n","u","t","e","s"," ","a","g","o">>
T_2months == <<"2"," ","m","o","n","t","h","s"," ","a","g","o">>

ISO_0     == "1970-01-01T00:00:00.000Z"
ISO_90s   == "1970-01-01T00:01:30.000Z"
ISO_1e9   == "1970-01-12T13:46:40.000Z"
ParsableHints == {ISO_0, ISO_90s, ISO_1e9}
Hints == ParsableHints \cup {NullISO, "", "not a date"}

\* values of Date.now()
Nows == {90000, 1000000000}

\* relative age texts: prefix, digits, white space, unit word, suffix
TextPrefixes == {<<>>, <<"-">>, <<"1",".">>, <<"1"," ">>, <<"o","n"," ">>}
TextDigits   == {<<>>, <<"0">>, <<"3">>, <<"1","2">>}
TextSpaces   == {<<>>, <<" ">>, <<" ","\t">>}
TextUnits    == {<<>>,
                 <<"s","e","c","o","n","d">>,
                 <<"s","e","c","o","n","d","s">>,
                 <<"M","i","n","u","t","e","s">>,
                 <<"m","i","n","u","t","e">>,
                 <<"h","o","u","r","s">>,
                 <<"d","a","y">>,
                 <<"D","A","Y","S">>,
                 <<"w","e","e","k","s">>,
                 <<"m","o","n","t","h","s">>,
                 <<"y","e","a","r">>}
TextSuffixes == {<<>>, T_ago}
Texts == {p \o d \o w \o u \o x :
            p \in TextPrefixes, d \in TextDigits, w \in TextSpaces,
            u \in TextUnits, x \in TextSuffixes}

\* rows a page of the feed can show
Art(title, ageText, ageISO) == [title |-> title, ageText |-> ageText, ageISO |-> ageISO]
PageArticles == {Art("A", T_1minute, NullISO),
                 Art("B", T_3minutes, ISO_90s),
                 Art("C", T_2months, NullISO)}
\* lists handed to validateArticles on its own
ValArticles == PageArticles \cup {Art("D", T_3minutes, NullISO),
                                  Art("E", T_1minute, "not a date")}

-----------------------------------------------------------------------------
(* Initial states *)

InitialValidationResult == [isSorted |-> FALSE, problems |-> <<>>, details |-> <<>>]

\* toTimestamp not called
TimeIdle ==
    /\ tArticle = Art("", <<>>, NullISO)
    /\ tNow = 0
    /\ tResult = NaN
    /\ tDone = FALSE

\* validateArticles not called on its own
ValidateIdle ==
    /\ vArticles = <<>>
    /\ vNow = 0
    /\ vResult = InitialValidationResult
    /\ vScan = <<>>
    /\ vDone = FALSE

\* the script after browser.newPage(), entering the try block
MainInit ==
    /\ pc = "goto"
    /\ gotoAttempt = 1
    /\ collected = <<>>
    /\ pagesVisited = 0
    /\ navAttempt = 0
    /\ stopCause = "none"
    /\ returned = <<>>
    /\ hasReturned = FALSE
    /\ yielded = <<>>
    /\ pageYields = <<>>
    /\ reads = 0
    /\ advCalls = 0
    /\ advOK = 0
    /\ sleeps = 0
    /\ articles = <<>>
    /\ validationResult = InitialValidationResult
    /\ validated = FALSE
    /\ exitCode = 0
    /\ report = <<>>
    /\ reportCount = 0

-----------------------------------------------------------------------------
(* toTimestamp on its own *)

InitTime ==
    /\ tArticle \in {Art("A", x, h) : x \in Texts, h \in Hints}
    /\ tNow \in Nows
    /\ tResult = NaN
    /\ tDone = FALSE
    /\ ValidateIdle
    /\ MainInit

CallToTimestamp ==
    /\ ~tDone
    /\ tResult' = toTimestamp(tArticle, tNow)
    /\ tDone' = TRUE
    /\ UNCHANGED <<tArticle, tNow, vvars, cvars, mvars>>

NextTime == CallToTimestamp
SpecTime == InitTime /\ [][NextTime]_vars

-----------------------------------------------------------------------------
(* validateArticles on its own *)

InitValidate ==
    /\ vArticles \in SeqsUpTo(ValArticles, MaxLen)
    /\ vNow \in Nows
    /\ vResult = InitialValidationResult
    /\ vScan = <<>>
    /\ vDone = FALSE
    /\ TimeIdle
    /\ MainInit

CallValidateArticles ==
    /\ ~vDone
    /\ vResult' = validateArticles(vArticles, vNow)
    /\ vScan' = checkSortedNewestToOldest(
                    enrichArticlesWithTimestamps(vArticles, vNow)).scan
    /\ vDone' = TRUE
    /\ UNCHANGED <<vArticles, vNow, tvars, cvars, mvars>>

NextValidate == CallValidateArticles
SpecValidate == InitValidate /\ [][NextValidate]_vars

-----------------------------------------------------------------------------
(* getFirstNArticles(page, EXPECTED_ARTICLE_COUNT) *)

\* return collected.slice(0, n), reached through the break named by cause;
\* the promise main awaits is resolved
Return(coll, cause) ==
    /\ returned' = Slice(coll, EXPECTED_ARTICLE_COUNT)
    /\ hasReturned' = TRUE
    /\ stopCause' = cause
    /\ pc' = "collected"

\* if (pagesVisited > MAX_PAGES_TO_VISIT)
CapExceededMutOff(pv) == pv > MAX_PAGES_TO_VISIT + 1
CapExceeded(pv) == pv > MAX_PAGES_TO_VISIT

\* from the while condition to the call of scrapeArticlesOnPage (or to the return)
LoopHead(coll) ==
    IF Len(coll) < EXPECTED_ARTICLE_COUNT
    THEN /\ pagesVisited' = pagesVisited + 1
         /\ IF CapExceeded(pagesVisited + 1)
            THEN /\ Return(coll, "cap")
                 /\ reads' = reads
            ELSE /\ pc' = "read"
                 /\ reads' = reads + 1
                 /\ UNCHANGED <<returned, hasReturned, stopCause>>
    ELSE /\ Return(coll, "target")
         /\ UNCHANGED <<pagesVisited, reads>>

\* if (pageArticles.length === 0) ... break
EmptyPageMutAdvance(pageArticles) ==
    /\ pc' = "advance"
    /\ navAttempt' = 1
    /\ advCalls' = advCalls + 1
    /\ UNCHANGED <<returned, hasReturned, stopCause, collected, yielded>>
EmptyPage(pageArticles) ==
    /\ Return(collected, "empty")
    /\ UNCHANGED <<collected, yielded, navAttempt, advCalls>>

\* the loop body after scrapeArticlesOnPage returned pageArticles, up to the
\* first call of navigateToNextPage (or to the return)
AfterScrape(pageArticles) ==
    /\ pageYields' = Append(pageYields, Len(pageArticles))
    /\ IF Len(pageArticles) = 0
       THEN EmptyPage(pageArticles)
       ELSE
         /\ collected' = collected \o pageArticles
         /\ yielded' = yielded \o pageArticles
         /\ IF Len(collected') >= EXPECTED_ARTICLE_COUNT
            THEN /\ Return(collected', "target")
                 /\ UNCHANGED <<navAttempt, advCalls>>
            ELSE /\ pc' = "advance"
                 /\ navAttempt' = 1
                 /\ advCalls' = advCalls + 1
                 /\ UNCHANGED <<returned, hasReturned, stopCause>>

\* scrapeArticlesOnPage: waitForSelector timed out, [] is returned
ScrapeTimeoutMutThrow ==
    /\ pc = "read"
    /\ pageYields' = Append(pageYields, 0)
    /\ pc' = "catch"
    /\ stopCause' = "empty"
    /\ UNCHANGED <<tvars, vvars, collected, yielded, navAttempt, advCalls, returned,
                   hasReturned, pagesVisited, reads, advOK, sleeps,
                   gotoAttempt, articles, validationResult, validated, exitCode,
                   report, reportCount>>
ScrapeTimeout ==
    /\ pc = "read"
    /\ AfterScrape(<<>>)
    /\ UNCHANGED <<tvars, vvars, pagesVisited, reads, advOK, sleeps,
                   gotoAttempt, articles, validationResult, validated, exitCode,
                   report, reportCount>>

\* scrapeArticlesOnPage: the rows of the page are returned
ScrapeRows ==
    /\ pc = "read"
    /\ \E pageArticles \in SeqsUpTo(PageArticles, MaxPageLen) \ {<<>>} :
          AfterScrape(pageArticles)
    /\ UNCHANGED <<tvars, vvars, pagesVisited, reads, advOK, sleeps,
                   gotoAttempt, articles, validationResult, validated, exitCode,
                   report, reportCount>>

\* scrapeArticlesOnPage: page.$$eval rejects; nothing in getFirstNArticles
\* catches it, the exception reaches the catch block of main
ScrapeThrows ==
    /\ pc = "read"
    /\ pc' = "catch"
    /\ stopCause' = "throw"
    /\ UNCHANGED <<tvars, vvars, collected, pagesVisited, navAttempt, returned,
                   hasReturned, yielded, pageYields, reads, advCalls, advOK, sleeps,
                   gotoAttempt, articles, validationResult, validated, exitCode,
                   report, reportCount>>

\* navigateToNextPage resolved: withRetry returns, the loop goes round
NavigateOK ==
    /\ pc = "advance"
    /\ advOK' = advOK + 1
    /\ LoopHead(collected)
    /\ UNCHANGED <<tvars, vvars, collected, navAttempt, yielded, pageYields, advCalls, sleeps,
                   gotoAttempt, articles, validationResult, validated, exitCode,
                   report, reportCount>>

\* withRetry after the last attempt threw: the catch of getFirstNArticles breaks
RetriesExhaustedMutThrow(coll) ==
    /\ pc' = "catch"
    /\ stopCause' = "advfail"
    /\ UNCHANGED <<returned, hasReturned>>
RetriesExhausted(coll) == Return(coll, "advfail")

\* navigateToNextPage threw: withRetry sleeps before the next attempt, or gives up
NavigateFailsMutSleepAfterLast ==
    /\ pc = "advance"
    /\ sleeps' = sleeps + 1
    /\ IF navAttempt < NavAttempts
       THEN /\ pc' = "navSleep"
            /\ UNCHANGED <<returned, hasReturned, stopCause>>
       ELSE RetriesExhausted(collected)
    /\ UNCHANGED <<tvars, vvars, collected, pagesVisited, navAttempt, yielded, pageYields,
                   reads, advCalls, advOK,
                   gotoAttempt, articles, validationResult, validated, exitCode,
                   report, reportCount>>
NavigateFails ==
    /\ pc = "advance"
    /\ IF navAttempt < NavAttempts
       THEN /\ pc' = "navSleep"
            /\ sleeps' = sleeps + 1
            /\ UNCHANGED <<returned, hasReturned, stopCause>>
       ELSE /\ RetriesExhausted(collected)
            /\ sleeps' = sleeps
    /\ UNCHANGED <<tvars, vvars, collected, pagesVisited, navAttempt, yielded, pageYields,
                   reads, advCalls, advOK,
                   gotoAttempt, articles, validationResult, validated, exitCode,
                   report, reportCount>>

\* sleep(delayMs) is over: the next attempt calls navigateToNextPage
NavigateRetry ==
    /\ pc = "navSleep"
    /\ navAttempt' = navAttempt + 1
    /\ advCalls' = advCalls + 1
    /\ pc' = "advance"
    /\ UNCHANGED <<tvars, vvars, collected, pagesVisited, stopCause, returned,
                   hasReturned, yielded, pageYields, reads, advOK, sleeps,
                   gotoAttempt, articles, validationResult, validated, exitCode,
                   report, reportCount>>

-----------------------------------------------------------------------------
(* The main script *)

\* the finally block up to await browser.close()
FinallyMutNoReport(arts, vr) ==
    /\ pc' = "closing"
    /\ UNCHANGED <<report, reportCount>>
Finally(arts, vr) ==
    /\ report' = <<buildResultObject(arts, vr)>>
    /\ reportCount' = reportCount + 1
    /\ pc' = "closing"

\* page.goto resolved: withRetry returns (its i is gone); after sleep(1000)
\* getFirstNArticles runs to its first await
GotoOK ==
    /\ pc = "goto"
    /\ gotoAttempt' = 0
    /\ LoopHead(collected)
    /\ UNCHANGED <<tvars, vvars, collected, navAttempt, yielded, pageYields, advCalls, advOK,
                   sleeps, articles, validationResult, validated,
                   exitCode, report, reportCount>>

\* page.goto threw: withRetry sleeps before the next attempt, or throws into catch
GotoFails ==
    /\ pc = "goto"
    /\ pc' = IF gotoAttempt < GotoAttempts THEN "gotoSleep" ELSE "catch"
    /\ gotoAttempt' = IF gotoAttempt < GotoAttempts THEN gotoAttempt ELSE 0
    /\ UNCHANGED <<tvars, vvars, cvars, articles, validationResult,
                   validated, exitCode, report, reportCount>>

GotoRetry ==
    /\ pc = "gotoSleep"
    /\ gotoAttempt' = gotoAttempt + 1
    /\ pc' = "goto"
    /\ UNCHANGED <<tvars, vvars, cvars, articles, validationResult, validated,
                   exitCode, report, reportCount>>

\* if (articles.length === 0) throw
NothingCollectedMutNever(arts) == FALSE
NothingCollected(arts) == Len(arts) = 0

\* main resumes with the value of getFirstNArticles: the zero check, the
\* validation; a pass runs on into the finally block
AfterCollect ==
    /\ pc = "collected"
    /\ articles' = returned
    /\ IF NothingCollected(returned)
       THEN /\ pc' = "catch"
            /\ UNCHANGED <<validationResult, validated, report, reportCount>>
       ELSE \E nowMs \in Nows :
              LET vr == validateArticles(returned, nowMs) IN
              /\ validationResult' = vr
              /\ validated' = TRUE
              /\ IF vr.isSorted
                 THEN Finally(returned, vr)
                 ELSE /\ pc' = "failShot"
                      /\ UNCHANGED <<report, reportCount>>
    /\ UNCHANGED <<tvars, vvars, cvars, gotoAttempt, exitCode>>

\* validation failed: captureScreenshot is over, exitCode = 1, then finally
AfterFailureScreenshot ==
    /\ pc = "failShot"
    /\ exitCode' = 1
    /\ Finally(articles, validationResult)
    /\ UNCHANGED <<tvars, vvars, cvars, gotoAttempt, articles, validationResult,
                   validated>>

\* catch (err): captureScreenshot is over, exitCode = 1, then finally
AfterErrorScreenshotMutNoExit ==
    /\ pc = "catch"
    /\ Finally(articles, validationResult)
    /\ UNCHANGED <<tvars, vvars, cvars, gotoAttempt, articles, validationResult,
                   validated, exitCode>>
AfterErrorScreenshot ==
    /\ pc = "catch"
    /\ exitCode' = 1
    /\ Finally(articles, validationResult)
    /\ UNCHANGED <<tvars, vvars, cvars, gotoAttempt, articles, validationResult,
                   validated>>

\* browser.close() is over
Close ==
    /\ pc = "closing"
    /\ pc' = "done"
    /\ UNCHANGED <<tvars, vvars, cvars, gotoAttempt, articles, validationResult,
                   validated, exitCode, report, reportCount>>

Init == TimeIdle /\ ValidateIdle /\ MainInit

Next ==
    \/ GotoOK
    \/ GotoFails
    \/ GotoRetry
    \/ ScrapeTimeout
    \/ ScrapeRows
    \/ ScrapeThrows
    \/ NavigateOK
    \/ NavigateFails
    \/ NavigateRetry
    \/ AfterCollect
    \/ AfterFailureScreenshot
    \/ AfterErrorScreenshot
    \/ Close

Spec == Init /\ [][Next]_vars

\* every await of the script is bounded (PAGE_LOAD_TIMEOUT, SELECTOR_TIMEOUT, the
\* sleeps), so a pending step is eventually taken
\* The resumption of main is named by its change of position: with [Next]_vars
\* these are exactly the steps of AfterCollect, which is enabled whenever
\* pc = "collected".
MainResumes == pc = "collected" /\ pc' \in {"catch", "failShot", "closing"}

CollaboratorSettles ==
    \/ GotoOK
    \/ GotoFails
    \/ GotoRetry
    \/ ScrapeTimeout
    \/ ScrapeRows
    \/ ScrapeThrows
    \/ NavigateOK
    \/ NavigateFails
    \/ NavigateRetry
    \/ AfterFailureScreenshot
    \/ AfterErrorScreenshot
    \/ Close

FairSpec ==
    Init /\ [][Next]_vars /\ WF_vars(CollaboratorSettles) /\ WF_pc(MainResumes)

-----------------------------------------------------------------------------
(* Properties of getFirstNArticles *)

\* C1: the value getFirstNArticles returns is the first min(n, total) rows of the
\* concatenation of the pages read, in order; never more than n rows, and
\* exactly n when n or more were accumulated.
C1_ReturnsFirstN ==
    hasReturned =>
        LET total == Len(yielded)
            m     == IF EXPECTED_ARTICLE_COUNT < total THEN EXPECTED_ARTICLE_COUNT ELSE total
        IN  /\ Len(returned) = m
            /\ \A i \in 1..m : returned[i] = yielded[i]
            /\ Len(returned) <= EXPECTED_ARTICLE_COUNT
            /\ (total >= EXPECTED_ARTICLE_COUNT => Len(returned) = EXPECTED_ARTICLE_COUNT)

\* more than n rows were accumulated over several pages and n were returned
C1_Witness ==
    /\ hasReturned
    /\ Len(pageYields) > 1
    /\ Len(yielded) > EXPECTED_ARTICLE_COUNT
    /\ Len(returned) = EXPECTED_ARTICLE_COUNT

\* C2: once the second attempt of an advance has failed, getFirstNArticles has
\* returned (not thrown) every row accumulated, main is not in its catch block,
\* and no page read or advance is started afterwards.
C2_AdvanceFailureStopsGracefully ==
    /\ [](stopCause = "advfail" =>
            /\ hasReturned
            /\ returned = yielded
            /\ Len(returned) > 0
            /\ pc # "catch")
    /\ [][stopCause = "advfail" => (reads' = reads /\ advCalls' = advCalls)]_vars

\* both attempts failed after two pages were read, and the run ended
C2_Witness ==
    /\ stopCause = "advfail"
    /\ navAttempt = NavAttempts
    /\ sleeps > 0
    /\ Len(pageYields) = 2
    /\ pc = "done"

LastYieldEmpty == Len(pageYields) > 0 /\ pageYields[Len(pageYields)] = 0

\* C3: once a page read has yielded zero rows, getFirstNArticles has returned the
\* rows of the earlier pages unchanged, and neither a page read nor an advance
\* is started afterwards.
C3_EmptyPageStops ==
    /\ [](LastYieldEmpty =>
            /\ hasReturned
            /\ stopCause = "empty"
            /\ returned = yielded)
    /\ [][LastYieldEmpty => (reads' = reads /\ advCalls' = advCalls
                               /\ pageYields' = pageYields)]_vars

\* the second page read was empty, the rows of the first page were returned
C3_Witness ==
    /\ LastYieldEmpty
    /\ Len(pageYields) = 2
    /\ Len(returned) > 0
    /\ pc = "done"

\* C4: scrapeArticlesOnPage is called at most MAX_PAGES_TO_VISIT times, and when
\* the loop stops on the page counter the rows accumulated are returned.
C4_PageCap ==
    /\ reads <= MAX_PAGES_TO_VISIT
    /\ Len(pageYields) <= MAX_PAGES_TO_VISIT
    /\ (stopCause = "cap" =>
            /\ hasReturned
            /\ pagesVisited = MAX_PAGES_TO_VISIT + 1
            /\ returned = yielded)

\* the loop stopped on the page counter with rows accumulated
C4_Witness ==
    /\ stopCause = "cap"
    /\ reads = MAX_PAGES_TO_VISIT
    /\ Len(returned) >= MAX_PAGES_TO_VISIT
    /\ pc = "done"

-----------------------------------------------------------------------------
(* Properties of validateArticles *)

Parsable(d) == d.timestamp.tag = "number"

\* indices k of the adjacent pairs (k-1, k), both parsable, that are inverted
Inversions(details) ==
    {k \in 2..Len(details) :
        /\ Parsable(details[k - 1])
        /\ Parsable(details[k])
        /\ details[k - 1].timestamp.v < details[k].timestamp.v}

OrderingProblems(problems) == SelectSeq(problems, LAMBDA q : q.kind = "ordering")

\* C5: isSorted is true exactly when every instant is parsable and every
\* adjacent pair has previous >= current (equal instants pass).
C5_PassedIffParsableAndNonIncreasing ==
    vDone =>
        LET d == vResult.details IN
        vResult.isSorted <=>
            /\ \A i \in 1..Len(d) : Parsable(d[i])
            /\ \A i \in 2..Len(d) : d[i - 1].timestamp.v >= d[i].timestamp.v

\* a list of three parsable items with two equal adjacent instants passed
C5_Witness ==
    /\ vDone
    /\ vResult.isSorted
    /\ Len(vResult.details) >= 3
    /\ \E i \in 2..Len(vResult.details) :
          vResult.details[i - 1].timestamp = vResult.details[i].timestamp
    /\ \E i \in 2..Len(vResult.details) :
          vResult.details[i - 1].timestamp.v > vResult.details[i].timestamp.v

\* C6: at most one ordering problem is reported; when some adjacent parsable pair
\* is inverted exactly one is reported, for the first such pair, and the loop
\* visits no pair after it.
C6_FirstInversionOnly ==
    vDone =>
        LET d   == vResult.details
            ord == OrderingProblems(vResult.problems)
            inv == Inversions(d)
        IN  /\ Len(ord) <= 1
            /\ inv = {} => Len(ord) = 0
            /\ inv # {} =>
                 LET k == CHOOSE x \in inv : \A y \in inv : x <= y IN
                 /\ Len(ord) = 1
                 /\ ord[1].index = k - 1
                 /\ ord[1].index2 = k
                 /\ vScan = [i \in 1..(k - 1) |-> i + 1]

\* the first inversion is followed by a second one, and one problem was reported
C6_Witness ==
    /\ vDone
    /\ Cardinality(Inversions(vResult.details)) >= 2
    /\ Len(OrderingProblems(vResult.problems)) = 1
    /\ Len(vScan) < Len(vResult.details) - 1

-----------------------------------------------------------------------------
(* Properties of toTimestamp *)

\* the instant each well-formed hint denotes
HintInstant(iso) ==
    CASE iso = ISO_0   -> 0
      [] iso = ISO_90s -> 90000
      [] iso = ISO_1e9 -> 1000000000

\* C7 as stated: whenever the item has a hint, the result is the instant of the hint.
C7_AsStated ==
    (tDone /\ tArticle.ageISO \notin {NullISO, ""}) =>
        tResult = DateParse(tArticle.ageISO)

\* C7 (amended): whenever the hint parses as a well-formed timestamp, the result
\* is the instant of the hint, whatever the relative text.
C7_ParsableHintWins ==
    (tDone /\ tArticle.ageISO \in ParsableHints) =>
        tResult = Num(HintInstant(tArticle.ageISO))

\* a parsable hint won over a relative text that denotes another instant
C7_Witness ==
    /\ tDone
    /\ tArticle.ageISO \in ParsableHints
    /\ parseRelativeAgeToTimestamp(tArticle.ageText, tNow).tag = "number"
    /\ parseRelativeAgeToTimestamp(tArticle.ageText, tNow) # tResult
    /\ tResult = Num(HintInstant(tArticle.ageISO))

\* digits and unit words with the number and the multiplier they denote
NumberTable == {[d |-> <<"0">>, n |-> 0],
                [d |-> <<"3">>, n |-> 3],
                [d |-> <<"1","2">>, n |-> 12]}
UnitTable == {[w |-> <<"s","e","c","o","n","d">>, m |-> 1],
              [w |-> <<"s","e","c","o","n","d","s">>, m |-> 1],
              [w |-> <<"M","i","n","u","t","e","s">>, m |-> 60],
              [w |-> <<"m","i","n","u","t","e">>, m |-> 60],
              [w |-> <<"h","o","u","r","s">>, m |-> 3600],
              [w |-> <<"d","a","y">>, m |-> 86400],
              [w |-> <<"D","A","Y","S">>, m |-> 86400]}

\* C8: with no hint and a text "N unit ...", the result is now - N*m*1000; so a
\* larger N never gives a later instant.
C8_RelativeExact ==
    (tDone /\ tArticle.ageISO = NullISO) =>
        \A num \in NumberTable, unit \in UnitTable,
           sp \in TextSpaces \ {<<>>}, suf \in TextSuffixes :
            /\ tArticle.ageText = num.d \o sp \o unit.w \o suf
                  => tResult = Num(tNow - num.n * unit.m * 1000)
            /\ \A num2 \in NumberTable :
                  num.n < num2.n =>
                     toTimestamp(Art("A", num.d \o sp \o unit.w \o suf, NullISO), tNow).v
                       >= toTimestamp(Art("A", num2.d \o sp \o unit.w \o suf, NullISO), tNow).v

\* "12 DAYS ago" without a hint gave now - 12 * 86400 * 1000
C8_Witness ==
    /\ tDone
    /\ tArticle.ageISO = NullISO
    /\ tArticle.ageText = <<"1","2"," ","D","A","Y","S"," ","a","g","o">>
    /\ tResult = Num(tNow - 1036800000)

\* some run of digits, then white space, then a word starting with a known unit
HasKnownPattern(s) ==
    \E i \in 1..Len(s), j \in 1..Len(s), k \in 1..Len(s) :
        /\ i < j /\ j < k
        /\ \A x \in i..(j - 1) : s[x] \in Digit
        /\ \A x \in j..(k - 1) : s[x] \in WhiteSpace
        /\ \E p \in {W_second, W_minute, W_hour, W_day} :
              /\ k + Len(p) - 1 <= Len(s)
              /\ ToLowerCase(SubSeq(s, k, k + Len(p) - 1)) = p

-----------------------------------------------------------------------------
(* Properties of the main script *)

\* C10: when getFirstNArticles returned no row, validateArticles is never called,
\* main goes through its catch block, and the report built has passed = false,
\* statistics null and actualCount 0.
C10_EmptyCollectionIsFatal ==
    (hasReturned /\ Len(returned) = 0) =>
        /\ ~validated
        /\ pc \in {"collected", "catch", "closing", "done"}
        /\ report # <<>> =>
              /\ exitCode = 1
              /\ report[1].validation.passed = FALSE
              /\ report[1].statistics.tag = "null"
              /\ report[1].meta.actualCount = 0

\* nothing was collected and the run ended with its report
C10_Witness ==
    /\ hasReturned
    /\ Len(returned) = 0
    /\ pc = "done"
    /\ Len(report) = 1


C12_AsStated ==
    stopCause \in {"empty", "advfail"} => pc # "catch"

\* C12 (amended): a page after the first whose content did not appear, and a
\* failed advance, never take main into its catch block: neither step throws,
\* and the rows collected are validated.
C12_LaterTimeoutAndAdvanceFailureNotFatal ==
    /\ []((stopCause = "advfail" \/ (stopCause = "empty" /\ Len(pageYields) > 1)) =>
            /\ pc # "catch"
            /\ Len(returned) > 0
            /\ (pc \in {"failShot", "closing", "done"} => validated))
    /\ [][(pc \in {"advance", "navSleep"}) => (pc' # "catch")]_vars
    /\ [][(pageYields' # pageYields) => (pc' # "catch")]_vars

\* the second page timed out after a failed advance attempt; the rows were validated
C12_Witness ==
    /\ stopCause = "empty"
    /\ Len(pageYields) = 2
    /\ sleeps = 1
    /\ validated
    /\ pc = "done"

\* C13: when a page read fails hard after rows were accumulated, the report built
\* in the finally block holds those rows: its count and its samples.
C13_PartialDataInReport ==
    (stopCause = "throw" /\ Len(report) = 1) =>
        /\ report[1].meta.actualCount = Len(collected)
        /\ Len(report[1].sampleArticles.first5) = Min(FirstSampleSize, Len(collected))
        /\ Len(report[1].sampleArticles.last3) = Min(LastSampleSize, Len(collected))

\* C14: the count of the report equals the number of items validated.
C14_CountEqualsValidated ==
    Len(report) = 1 =>
        /\ report[1].meta.actualCount = Len(validationResult.details)
        /\ report[1].meta.actualCount = Len(articles)

\* fewer rows than the target were collected, validated and reported
C14_Witness ==
    /\ Len(report) = 1
    /\ validated
    /\ Len(validationResult.details) > 0
    /\ report[1].meta.actualCount < report[1].meta.expectedCount
    /\ report[1].meta.actualCount = Len(validationResult.details)


-----------------------------------------------------------------------------
(* Further properties of validateArticles *)

Unparsables(details) == {i \in 1..Len(details) : ~Parsable(details[i])}

\* C15: a pair with an unparsable side yields no ordering problem and does not end
\* the loop: an inversion of two parsable neighbours after an unparsable item
\* is reported, and without an inversion every pair is visited.
C15_UnparsablePairSkipped ==
    vDone =>
        LET d   == vResult.details
            ord == OrderingProblems(vResult.problems)
            inv == Inversions(d)
        IN  /\ \A q \in 1..Len(ord) :
                  Parsable(d[ord[q].index]) /\ Parsable(d[ord[q].index2])
            /\ (inv # {} /\ Unparsables(d) # {}) =>
                  /\ Len(ord) = 1
                  /\ ord[1].index2 \in inv
            /\ inv = {} => vScan = [i \in 1..(Len(d) - 1) |-> i + 1]

\* an inversion located after an unparsable item was reported
C15_Witness ==
    /\ vDone
    /\ \E u \in Unparsables(vResult.details) :
          \A k \in Inversions(vResult.details) : u < k - 1
    /\ Inversions(vResult.details) # {}
    /\ Len(OrderingProblems(vResult.problems)) = 1

\* the i-th smallest element of a set of numbers
Nth(S, i) == CHOOSE x \in S : Cardinality({y \in S : y < x}) = i - 1

\* C16: the problem list is one parse problem per unparsable item, in position
\* order and naming the item, followed by the ordering problem if there is one.
C16_ProblemsConcatenated ==
    vDone =>
        LET d == vResult.details
            P == vResult.problems
            U == Unparsables(d)
            n == Cardinality(U)
        IN  /\ Len(P) = n + (IF Inversions(d) # {} THEN 1 ELSE 0)
            /\ \A i \in 1..n :
                  /\ P[i].kind = "unparsable"
                  /\ P[i].index = Nth(U, i)
                  /\ P[i].title = d[Nth(U, i)].title
                  /\ P[i].ageText = d[Nth(U, i)].ageText
                  /\ P[i].iso = (IF d[Nth(U, i)].ageISO = NullISO
                                 THEN "none" ELSE d[Nth(U, i)].ageISO)
            /\ \A i \in (n + 1)..Len(P) : P[i].kind = "ordering"

\* two unparsable items and an inversion gave three problems
C16_Witness ==
    /\ vDone
    /\ Cardinality(Unparsables(vResult.details)) = 2
    /\ Inversions(vResult.details) # {}
    /\ Len(vResult.problems) = 3

-----------------------------------------------------------------------------
(* Properties of the pagination retry *)

\* attempts, delay and fresh budget of withRetry around navigateToNextPage
RetryDiscipline ==
    /\ [](navAttempt <= NavAttempts /\ (pc = "navSleep" => navAttempt < NavAttempts))
    /\ [][(advOK' # advOK) =>
            (pc = "advance" /\ advOK' = advOK + 1 /\ advCalls' = advCalls /\ sleeps' = sleeps)]_vars
    /\ [][(sleeps' # sleeps) =>
            (pc = "advance" /\ navAttempt = 1 /\ pc' = "navSleep" /\ sleeps' = sleeps + 1)]_vars
    /\ [][(pc = "navSleep") =>
            (pc' = "advance" /\ navAttempt' = navAttempt + 1 /\ advCalls' = advCalls + 1)]_vars
    /\ [][(pc = "read" /\ pc' = "advance") =>
            (navAttempt' = 1 /\ advCalls' = advCalls + 1)]_vars

\* C17 as stated: the retry discipline, and a success on the second attempt is
\* followed by a read of the next page.
C17_AsStated ==
    /\ RetryDiscipline
    /\ [][(pc = "advance" /\ navAttempt = NavAttempts /\ advOK' = advOK + 1) =>
            (pc' = "read" /\ reads' = reads + 1)]_vars

\* C17 (amended): the retry discipline, and a success on the second attempt is
\* followed by a read of the next page unless the page counter then exceeds
\* MAX_PAGES_TO_VISIT, in which case the loop stops.
C17_RetryThenReadOrCap ==
    /\ RetryDiscipline
    /\ [][(pc = "advance" /\ navAttempt = NavAttempts /\ advOK' = advOK + 1) =>
            IF pagesVisited < MAX_PAGES_TO_VISIT
            THEN pc' = "read" /\ reads' = reads + 1
            ELSE pc' = "collected" /\ stopCause' = "cap" /\ reads' = reads]_vars

\* two advancing steps each failed once and succeeded on the second attempt
C17_Witness ==
    /\ hasReturned
    /\ navAttempt = NavAttempts
    /\ sleeps = 2
    /\ advOK = 2
    /\ advCalls = 4

\* C18 as stated: successful advances are fewer than page reads and at most
\* MAX_PAGES_TO_VISIT - 1.
C18_AsStated ==
    hasReturned => (advOK < reads /\ advOK <= MAX_PAGES_TO_VISIT - 1)

\* C18 (amended): a successful advance is followed by a read, except the one made
\* after page MAX_PAGES_TO_VISIT was read, which is followed by the stop on the
\* page counter; only then do the successful advances equal the reads.
C18_AdvanceReadUnlessCap ==
    /\ [](hasReturned =>
            /\ stopCause # "cap" => (advOK < reads /\ advOK <= MAX_PAGES_TO_VISIT - 1)
            /\ stopCause = "cap" => (advOK = reads /\ reads = MAX_PAGES_TO_VISIT))
    /\ [][(advOK' # advOK) =>
            IF pagesVisited < MAX_PAGES_TO_VISIT
            THEN pc' = "read" /\ reads' = reads + 1
            ELSE pc' = "collected" /\ stopCause' = "cap" /\ reads' = reads]_vars

\* the advance after the last allowed page succeeded and its page was not read
C18_Witness ==
    /\ hasReturned
    /\ stopCause = "cap"
    /\ advOK = MAX_PAGES_TO_VISIT
    /\ reads = MAX_PAGES_TO_VISIT

-----------------------------------------------------------------------------
(* Properties of the report *)

\* C19: every sample entry of a report of n >= 1 items carries the 1-based rank
\* of its item in the collected list.
C19_SamplePositions ==
    (Len(report) = 1 /\ Len(articles) >= 1) =>
        LET n  == Len(articles)
            f5 == report[1].sampleArticles.first5
            l3 == report[1].sampleArticles.last3
        IN  /\ \A i \in 1..Len(f5) :
                  /\ f5[i].position = i
                  /\ f5[i].title = articles[i].title
            /\ \A i \in 1..Len(l3) :
                  /\ l3[i].position = n - Len(l3) + i
                  /\ l3[i].position \in 1..n
                  /\ l3[i].title = articles[n - Len(l3) + i].title

\* C20: at the end of a run the exit code is 1 exactly when the report says
\* passed = false.
C20_ExitCodeAgreesWithReport ==
    pc \in {"closing", "done"} =>
        /\ exitCode \in {0, 1}
        /\ (exitCode = 1) <=> (report[1].validation.passed = FALSE)

\* a run that validated its rows, failed, and ended with exit code 1
C20_Witness ==
    /\ pc = "done"
    /\ validated
    /\ exitCode = 1
    /\ report[1].validation.passed = FALSE
    /\ report[1].validation.problemCount > 0

=============================================================================
